---- MODULE Spec2Model ----
(***************************************************************************)
(* Model of src/src/index.ts: the fetch router, handleChatRequest (the     *)
(* tool-augmented completion loop), parseToolCalls, executeTool,           *)
(* buildSystemPrompt and buildStreamingResponse.                           *)
(*                                                                         *)
(* One request is followed from its arrival to its response.  Every await  *)
(* of the code is a value of pc; the code between two awaits runs to       *)
(* completion and is one action.  Text is modelled as a sequence of        *)
(* segments (records), so that parsing, formatting and appending are       *)
(* computed rather than assumed.                                           *)
(***************************************************************************)
EXTENDS Integers, Sequences, FiniteSets, TLC

VARIABLES
    request,          \* the inbound Request: method, pathname, body
    pc,               \* the await the request is suspended at
    messages,         \* handleChatRequest: const messages (mutated by unshift)
    workingMessages,  \* handleChatRequest: const workingMessages
    toolsUsed,        \* handleChatRequest: let toolsUsed
    iteration,        \* handleChatRequest: let iteration
    toolCalls,        \* directives of the current reply not yet dispatched
    toolResults,      \* handleChatRequest: let toolResults
    aiCalls,          \* log: the messages argument of every env.AI.run call
    aiReplies,        \* log: what every env.AI.run call produced
    executed,         \* log: every executeTool invocation and its result
    fetches,          \* log: every outbound backend request
    responses,        \* log: every Response returned to the caller
    other             \* a second request in flight, suspended at an await

\* What belongs to the request that is running.
locals == <<request, pc, messages, workingMessages, toolsUsed, iteration,
            toolCalls, toolResults, aiCalls, aiReplies, executed, fetches,
            responses>>

vars == <<locals, other>>

(***************************************************************************)
(* Generic helpers.                                                        *)
(***************************************************************************)
IsPrefix(s, t) == Len(s) <= Len(t) /\ SubSeq(t, 1, Len(s)) = s

SeqsUpTo(S, n) == UNION {[1..k -> S] : k \in 0..n}

\* A piece of plain text.
Text(s) == [k |-> "text", s |-> s]


(***************************************************************************)
(* JavaScript values that occur in directive parameters.                   *)
(***************************************************************************)
Undefined == [undef |-> TRUE]
Str(chars) == [str |-> chars]
Num(n) == [num |-> n]

Digits == <<"0", "1", "2", "3", "4", "5", "6", "7", "8", "9">>

IsDigit(c) == \E d \in 1..10 : Digits[d] = c

DigitValue(c) == (CHOOSE d \in 1..10 : Digits[d] = c) - 1

IsSpace(c) == c = " "

RECURSIVE TrimLeft(_)
TrimLeft(s) ==
    IF s # <<>> /\ IsSpace(Head(s)) THEN TrimLeft(Tail(s)) ELSE s

RECURSIVE TrimRight(_)
TrimRight(s) ==
    IF s # <<>> /\ IsSpace(s[Len(s)])
    THEN TrimRight(SubSeq(s, 1, Len(s) - 1))
    ELSE s

RECURSIVE DecimalValue(_)
DecimalValue(s) ==
    IF s = <<>> THEN 0
    ELSE 10 * DecimalValue(SubSeq(s, 1, Len(s) - 1)) + DigitValue(s[Len(s)])

NaN == [nan |-> TRUE]

\* Number(value) on the characters of the model's alphabet (digits, letters,
\* the space): surrounding white space is dropped, the empty text is 0, a run
\* of digits is its decimal value, anything else is NaN.
Number(value) ==
    LET t == TrimRight(TrimLeft(value)) IN
    IF t = <<>> THEN Num(0)
    ELSE IF \A i \in DOMAIN t : IsDigit(t[i]) THEN Num(DecimalValue(t))
    ELSE NaN

isNaN(v) == v = NaN

\* params[key] = isNaN(Number(value)) ? value : Number(value)
CoerceValue(value) ==
    IF isNaN(Number(value)) THEN Str(value) ELSE Number(value)

RECURSIVE NatToChars(_)
NatToChars(n) ==
    IF n < 10 THEN <<Digits[n + 1]>>
    ELSE NatToChars(n \div 10) \o <<Digits[(n % 10) + 1]>>

\* String(v), as template literals and encodeURIComponent apply it.
JsString(v) ==
    IF "str" \in DOMAIN v THEN v.str
    ELSE IF "num" \in DOMAIN v THEN NatToChars(v.num)
    ELSE <<"undefined">>

\* v || d
Truthy(v) ==
    IF "str" \in DOMAIN v THEN v.str # <<>>
    ELSE IF "num" \in DOMAIN v THEN v.num # 0
    ELSE FALSE

encodeURIComponent(v) ==
    LET s == JsString(v) IN
    [i \in DOMAIN s |-> IF s[i] = " " THEN "%20" ELSE s[i]]

(***************************************************************************)
(* parseToolCalls.  A reply is a sequence of segments: plain text, a       *)
(* well-formed <TOOL_CALL>name(key="value", ...)</TOOL_CALL> (k = "call"), *)
(* or a directive that toolRegex does not match (k = "malformed").         *)
(***************************************************************************)
Call(tool, params) == [k |-> "call", tool |-> tool, params |-> params]
Malformed(tool) == [k |-> "malformed", tool |-> tool]
Param(key, value) == [key |-> key, value |-> value]

EmptyParams == [x \in {} |-> Undefined]

\* The inner while loop over paramRegex: a later key overwrites an earlier one.
RECURSIVE ParseParams(_)
ParseParams(ps) ==
    IF ps = <<>> THEN EmptyParams
    ELSE LET last == ps[Len(ps)] IN
         (last.key :> CoerceValue(last.value))
             @@ ParseParams(SubSeq(ps, 1, Len(ps) - 1))

\* parseToolCalls with a pattern that also accepts a directive without its
\* closing tag.
RECURSIVE parseToolCallsLenient(_)
parseToolCallsLenient(text) ==
    IF text = <<>> THEN <<>>
    ELSE LET seg == Head(text) IN
         IF seg.k = "call"
         THEN <<[tool |-> seg.tool, params |-> ParseParams(seg.params)]>>
                  \o parseToolCallsLenient(Tail(text))
         ELSE IF seg.k = "malformed"
         THEN <<[tool |-> seg.tool, params |-> EmptyParams]>>
                  \o parseToolCallsLenient(Tail(text))
         ELSE parseToolCallsLenient(Tail(text))

\* parseToolCalls that returns the directives last first.
RECURSIVE parseToolCallsReversed(_)
parseToolCallsReversed(text) ==
    IF text = <<>> THEN <<>>
    ELSE LET seg == Head(text) IN
         IF seg.k = "call"
         THEN parseToolCallsReversed(Tail(text))
                  \o <<[tool |-> seg.tool, params |-> ParseParams(seg.params)]>>
         ELSE parseToolCallsReversed(Tail(text))

RECURSIVE parseToolCalls(_)
parseToolCalls(text) ==
    IF text = <<>> THEN <<>>
    ELSE LET seg == Head(text) IN
         IF seg.k = "call"
         THEN <<[tool |-> seg.tool, params |-> ParseParams(seg.params)]>>
                  \o parseToolCalls(Tail(text))
         ELSE parseToolCalls(Tail(text))

(***************************************************************************)
(* buildSystemPrompt.  A profile field that is undefined and one that is   *)
(* the empty string are both falsy and are both written "" here; schools   *)
(* that is undefined and schools that is empty are both written << >>.     *)
(***************************************************************************)
NoProfile == [present |-> FALSE]
Profile(cc, major, schools) ==
    [present |-> TRUE, cc |-> cc, major |-> major, schools |-> schools]

Field(label, value) == [k |-> "field", label |-> label, value |-> value]

BasePrompt == <<Text("BetterTransfer Assistant"), Text("CONTEXT"),
                Text("TOOLS_DEFINITION")>>

buildSystemPrompt(userProfile) ==
    IF userProfile.present
    THEN BasePrompt
           \o <<Text("Student Profile:")>>
           \o (IF userProfile.cc # ""
               THEN <<Field("Current Community College", <<userProfile.cc>>)>>
               ELSE <<>>)
           \o (IF userProfile.major # ""
               THEN <<Field("Target Major", <<userProfile.major>>)>>
               ELSE <<>>)
           \o (IF Len(userProfile.schools) > 0
               THEN <<Field("Target Universities", userProfile.schools)>>
               ELSE <<>>)
           \o <<Text("Use this information")>>
    ELSE BasePrompt

(***************************************************************************)
(* executeTool.  backend is what the tool's endpoint does with the one     *)
(* request the tool sends: fetch throws, or it answers with a status and a *)
(* body that response.json() decodes or throws on.                         *)
(***************************************************************************)
API_BASE_URL == "http://localhost:5000"

TOOL_NAMES ==
    [check_transfer_requirements |-> "Transfer Requirements Tool by Eli",
     find_internships |-> "Internship Search Tool by Gabe",
     find_mentorship_programs |-> "Mentorship Programs Tool by Gabe",
     find_free_resources |-> "Free Resources Tool by Gabe",
     find_cs_articulations |-> "CS Articulations Tool by Angelo"]

\* TOOL_NAMES[toolName] || toolName
toolDisplayName(toolName) ==
    IF toolName \in DOMAIN TOOL_NAMES THEN TOOL_NAMES[toolName] ELSE toolName

\* params.key
Get(params, key) ==
    IF key \in DOMAIN params THEN params[key] ELSE Undefined

\* The request each branch of executeTool sends, << >> when it sends none.
ToolRequest(toolName, params) ==
    CASE toolName = "check_transfer_requirements" ->
           <<[method |-> "POST", base |-> API_BASE_URL,
              path |-> "/api/transfer/check",
              body |-> [from_school |-> Get(params, "from_school"),
                        to_school |-> Get(params, "to_school")]]>>
      [] toolName = "find_internships" ->
           <<[method |-> "GET", base |-> API_BASE_URL,
              path |-> "/api/stem-internships",
              query |-> [major |-> encodeURIComponent(Get(params, "major")),
                         limit |-> IF Truthy(Get(params, "limit"))
                                   THEN JsString(Get(params, "limit"))
                                   ELSE <<"5">>]]>>
      [] toolName = "find_mentorship_programs" ->
           <<[method |-> "GET", base |-> API_BASE_URL,
              path |-> "/api/mentorships/community-college",
              query |-> [limit |-> <<"5">>]]>>
      [] toolName = "find_free_resources" ->
           <<[method |-> "GET", base |-> API_BASE_URL,
              path |-> "/api/mentorships/free",
              query |-> [limit |-> <<"5">>]]>>
      [] toolName = "find_cs_articulations" ->
           <<[method |-> "GET", base |-> API_BASE_URL,
              path |-> "/api/cs-articulations",
              query |-> [cc |-> encodeURIComponent(Get(params, "cc")),
                         uc |-> encodeURIComponent(Get(params, "uc"))]]>>
      [] OTHER -> <<>>

\* `[${toolDisplayName}] ${JSON.stringify(data)}`
ResultPayload(toolName, data) ==
    [k |-> "result", display |-> toolDisplayName(toolName), data |-> data]

\* `[${toolDisplayName}] Error: ${String(error)}`
ErrorPayload(toolName, error) ==
    [k |-> "error", display |-> toolDisplayName(toolName), error |-> error]

\* JSON.stringify({ error: `Unknown tool: ${toolName}` })
UnknownPayload(toolName) ==
    [k |-> "json", error |-> <<"Unknown tool: ", toolName>>]

NetworkError == [thrown |-> TRUE, error |-> "TypeError: fetch failed"]
Answer(status, json, data) ==
    [thrown |-> FALSE, status |-> status, json |-> json, data |-> data]

\* ToolOutcome without the catch around fetch: a network error propagates.
ToolOutcomeRethrow(toolName, backend) ==
    IF backend.thrown
    THEN [threw |-> TRUE, value |-> ErrorPayload(toolName, backend.error)]
    ELSE IF ~backend.json
    THEN [threw |-> FALSE,
          value |-> ErrorPayload(toolName, "SyntaxError: Unexpected token")]
    ELSE [threw |-> FALSE, value |-> ResultPayload(toolName, backend.data)]

\* The try block after the request is sent: await fetch, await
\* response.json(), the return; and the catch.
ToolOutcome(toolName, backend) ==
    IF backend.thrown
    THEN [threw |-> FALSE, value |-> ErrorPayload(toolName, backend.error)]
    ELSE IF ~backend.json
    THEN [threw |-> FALSE,
          value |-> ErrorPayload(toolName, "SyntaxError: Unexpected token")]
    ELSE [threw |-> FALSE, value |-> ResultPayload(toolName, backend.data)]

\* executeTool that throws for a tool name it has no branch for.
executeToolThrowsOnUnknown(toolName, params, backend) ==
    LET sent == ToolRequest(toolName, params) IN
    IF sent = <<>>
    THEN [sent |-> sent, threw |-> TRUE, value |-> UnknownPayload(toolName)]
    ELSE [sent |-> sent] @@ ToolOutcome(toolName, backend)

\* executeTool(toolName, params) when the backend behaves as `backend`:
\* the requests it sends, and whether it returns a value or throws.
executeTool(toolName, params, backend) ==
    LET sent == ToolRequest(toolName, params) IN
    IF sent = <<>>
    THEN [sent |-> sent, threw |-> FALSE, value |-> UnknownPayload(toolName)]
    ELSE [sent |-> sent] @@ ToolOutcome(toolName, backend)

(***************************************************************************)
(* Responses.                                                              *)
(***************************************************************************)
buildStreamingResponse(content) ==
    [status |-> 200, contentType |-> "application/x-ndjson",
     transferEncoding |-> "chunked", body |-> <<[response |-> content]>>]

ErrorResponse ==
    [status |-> 500, contentType |-> "application/json",
     body |-> <<[error |-> "Failed to process request"]>>]

MethodNotAllowed == [status |-> 405, body |-> <<Text("Method not allowed")>>]

NotFound == [status |-> 404, body |-> <<Text("Not found")>>]

\* env.ASSETS.fetch(request): the static-asset collaborator answers.
AssetResponse(req) == [status |-> 200, body |-> <<[asset |-> req.pathname]>>]

(***************************************************************************)
(* The inputs of the model.                                                *)
(***************************************************************************)
MaxHistory == 2        \* messages in the caller's history
MaxFailures == 1       \* backend calls of one request that fail

maxIterations == 3

Message(role, content) == [role |-> role, content |-> content]

CallerMessages ==
    {Message("system", <<Text("caller system prompt")>>),
     Message("user", <<Text("How do I transfer?")>>)}

Histories == SeqsUpTo(CallerMessages, MaxHistory)

Profiles == {NoProfile, Profile("De Anza", "", <<"UC Berkeley">>)}

ChatBodies ==
    {[json |-> FALSE]}
        \cup {[json |-> TRUE, messages |-> h, userProfile |-> p] :
                h \in Histories, p \in Profiles}

Pathnames == {<<>>, <<"index.html">>, <<"api", "chat">>, <<"api", "other">>}

Requests ==
    {[method |-> "POST", pathname |-> <<"api", "chat">>, body |-> b] :
        b \in ChatBodies}
      \cup {[method |-> m, pathname |-> p, body |-> [json |-> FALSE]] :
              m \in {"GET", "POST"}, p \in Pathnames}

\* The directives the modelled completion engine writes.
CallInternships ==
    Call("find_internships", <<Param("major", <<"C", "S">>)>>)
CallInternshipsLimit ==
    Call("find_internships",
         <<Param("major", <<"B", "i", "o">>), Param("limit", <<"1", "0">>)>>)
CallTransfer ==
    Call("check_transfer_requirements",
         <<Param("from_school", <<"D", "A">>), Param("to_school", <<"U", "C">>)>>)
CallPhantom ==
    Call("find_cs_articulations",
         <<Param("cc", <<"D", "A">>), Param("uc", <<"U", "C">>)>>)
CallPhantomBare == Call("find_cs_articulations", <<>>)
CallUnknown == Call("lookup_gpa", <<Param("min", <<"3">>)>>)

\* The replies the modelled completion engine gives: one without a
\* well-formed directive, one with a single directive, two with several.
Replies ==
    {<<Text("Here is my advice."), Malformed("find_internships")>>,
     <<Text("Let me check."), CallInternships>>,
     <<CallTransfer, Text("and"), CallInternshipsLimit>>,
     <<CallPhantom, CallUnknown, Malformed("find_free_resources"),
       CallPhantomBare>>}

Success == Answer(200, TRUE, "payload")

Failures ==
    {NetworkError,
     Answer(500, TRUE, "server error"),
     Answer(502, FALSE, "<html>")}

Backends == {Success} \cup Failures

AIErrors == {"Error: model unavailable", "Error: capacity exceeded"}

(***************************************************************************)
(* The state machine.                                                      *)
(***************************************************************************)
\* No second request.
Alone == [present |-> FALSE]

\* A request as the router receives it.
Arrives ==
    /\ pc = "fetch"
    /\ messages = <<>>
    /\ workingMessages = <<>>
    /\ toolsUsed = FALSE
    /\ iteration = 0
    /\ toolCalls = <<>>
    /\ toolResults = <<>>
    /\ aiCalls = <<>>
    /\ aiReplies = <<>>
    /\ executed = <<>>
    /\ fetches = <<>>
    /\ responses = <<>>

Init ==
    /\ request \in Requests
    /\ Arrives
    /\ other = Alone

\* return <a Response>: the request is over.
Respond(r) ==
    /\ responses' = Append(responses, r)
    /\ pc' = "done"

\* url.pathname.startsWith("/api/")
StartsWithApi(pathname) == Len(pathname) >= 2 /\ pathname[1] = "api"

\* Route without the test of the method: every request to /api/chat enters
\* handleChatRequest.
RouteNoMethodCheck ==
    /\ pc = "fetch"
    /\ IF request.pathname = <<>> \/ ~StartsWithApi(request.pathname)
       THEN Respond(AssetResponse(request))
       ELSE IF request.pathname = <<"api", "chat">>
       THEN pc' = "await_json" /\ UNCHANGED responses
       ELSE Respond(NotFound)
    /\ UNCHANGED <<request, messages, workingMessages, toolsUsed, iteration,
                   toolCalls, toolResults, aiCalls, aiReplies, executed,
                   fetches>>

\* export default { fetch }: the router.  POST /api/chat enters
\* handleChatRequest, which suspends at await request.json().
Route ==
    /\ pc = "fetch"
    /\ IF request.pathname = <<>> \/ ~StartsWithApi(request.pathname)
       THEN Respond(AssetResponse(request))
       ELSE IF request.pathname = <<"api", "chat">>
       THEN IF request.method = "POST"
            THEN pc' = "await_json" /\ UNCHANGED responses
            ELSE Respond(MethodNotAllowed)
       ELSE Respond(NotFound)
    /\ UNCHANGED <<request, messages, workingMessages, toolsUsed, iteration,
                   toolCalls, toolResults, aiCalls, aiReplies, executed,
                   fetches>>

HasSystem(msgs) == \E i \in DOMAIN msgs : msgs[i].role = "system"

\* EnsureSystem without the unshift.
EnsureSystemNever(msgs, systemPrompt) == msgs

\* EnsureSystem without the test: the system message is always inserted.
EnsureSystemAlways(msgs, systemPrompt) ==
    <<Message("system", systemPrompt)>> \o msgs

\* EnsureSystem that puts the built prompt in the place of the caller's
\* system message.
EnsureSystemReplace(msgs, systemPrompt) ==
    IF ~HasSystem(msgs)
    THEN <<Message("system", systemPrompt)>> \o msgs
    ELSE [i \in DOMAIN msgs |->
            IF msgs[i].role = "system"
            THEN Message("system", systemPrompt)
            ELSE msgs[i]]

\* if (!messages.some(...)) messages.unshift({role: "system", ...})
EnsureSystem(msgs, systemPrompt) ==
    IF ~HasSystem(msgs)
    THEN <<Message("system", systemPrompt)>> \o msgs
    ELSE msgs

\* Push that writes over the last message instead of appending.
PushOverwrite(msgs, message) ==
    IF msgs = <<>> THEN <<message>>
    ELSE [msgs EXCEPT ![Len(msgs)] = message]

\* workingMessages.push(message)
Push(msgs, message) == Append(msgs, message)

\* CallModel without the call after the loop: nothing is returned once the
\* budget is spent.
CallModelNoFinal(it, wm) ==
    IF it < maxIterations
    THEN /\ iteration' = it + 1
         /\ aiCalls' = Append(aiCalls, wm)
         /\ pc' = "await_ai"
    ELSE UNCHANGED <<iteration, aiCalls, pc>>

\* CallModel without iteration++.
CallModelNoIncrement(it, wm) ==
    IF it < maxIterations
    THEN /\ iteration' = it
         /\ aiCalls' = Append(aiCalls, wm)
         /\ pc' = "await_ai"
    ELSE /\ iteration' = it
         /\ aiCalls' = Append(aiCalls, wm)
         /\ pc' = "await_final"

\* CallModel with the loop test off by one (iteration <= maxIterations).
CallModelOffByOne(it, wm) ==
    IF it <= maxIterations
    THEN /\ iteration' = it + 1
         /\ aiCalls' = Append(aiCalls, wm)
         /\ pc' = "await_ai"
    ELSE /\ iteration' = it
         /\ aiCalls' = Append(aiCalls, wm)
         /\ pc' = "await_final"

\* The head of the while loop, and the code after the loop: the next
\* env.AI.run call, on the count `it` and the messages `wm`.
CallModel(it, wm) ==
    IF it < maxIterations
    THEN /\ iteration' = it + 1
         /\ aiCalls' = Append(aiCalls, wm)
         /\ pc' = "await_ai"
    ELSE /\ iteration' = it
         /\ aiCalls' = Append(aiCalls, wm)
         /\ pc' = "await_final"

\* catch (error) { ... return new Response(..., { status: 500 }) }
Catch == Respond(ErrorResponse)

\* handleChatRequest from await request.json() to the first env.AI.run.
ReadBody ==
    /\ pc = "await_json"
    /\ IF ~request.body.json
       THEN /\ Catch
            /\ UNCHANGED <<messages, workingMessages, toolsUsed, iteration,
                           aiCalls>>
       ELSE LET systemPrompt == buildSystemPrompt(request.body.userProfile)
                msgs == EnsureSystem(request.body.messages, systemPrompt)
            IN /\ messages' = msgs
               /\ workingMessages' = msgs
               /\ toolsUsed' = FALSE
               /\ CallModel(0, msgs)
               /\ UNCHANGED responses
    /\ UNCHANGED <<request, toolCalls, toolResults, aiReplies, executed,
                   fetches>>

\* The body of the while loop from the reply of env.AI.run to the return
\* (no directive) or to the first executeTool call.
ModelReplies ==
    /\ pc = "await_ai"
    /\ \E assistantMessage \in Replies :
         LET calls == parseToolCalls(assistantMessage)
             pushed == Push(workingMessages,
                            Message("assistant", assistantMessage))
         IN /\ aiReplies' = Append(aiReplies,
                                   [threw |-> FALSE, response |-> assistantMessage])
            /\ workingMessages' = pushed
            /\ IF Len(calls) = 0
               THEN /\ Respond(buildStreamingResponse(assistantMessage))
                    /\ UNCHANGED <<toolsUsed, toolCalls, toolResults>>
               ELSE /\ toolsUsed' = TRUE
                    /\ toolCalls' = calls
                    /\ toolResults' = <<Text("Tool Execution Results:")>>
                    /\ pc' = "await_tool"
                    /\ UNCHANGED responses
    /\ UNCHANGED <<request, messages, iteration, aiCalls, executed, fetches>>

\* ModelThrows with a retry: the failed call is issued again.
ModelThrowsRetry ==
    /\ pc \in {"await_ai", "await_final"}
    /\ \E error \in AIErrors :
         aiReplies' = Append(aiReplies, [threw |-> TRUE, error |-> error])
    /\ IF Len(aiCalls) < maxIterations + 2
       THEN /\ aiCalls' = Append(aiCalls, workingMessages)
            /\ UNCHANGED <<pc, responses>>
       ELSE Catch /\ UNCHANGED aiCalls
    /\ UNCHANGED <<request, messages, workingMessages, toolsUsed, iteration,
                   toolCalls, toolResults, executed, fetches>>

\* env.AI.run rejects, in the loop or after it: the catch answers 500.
ModelThrows ==
    /\ pc \in {"await_ai", "await_final"}
    /\ \E error \in AIErrors :
         aiReplies' = Append(aiReplies, [threw |-> TRUE, error |-> error])
    /\ Catch
    /\ UNCHANGED <<request, messages, workingMessages, toolsUsed, iteration,
                   toolCalls, toolResults, aiCalls, executed, fetches>>

Failed == {i \in DOMAIN executed : executed[i].backend \in Failures}

\* What the backend of a tool can do: nothing that matters when the tool
\* sends no request; at most MaxFailures failures in one request.
BackendsFor(toolCall) ==
    IF ToolRequest(toolCall.tool, toolCall.params) = <<>>
    THEN {Success}
    ELSE IF Cardinality(Failed) < MaxFailures THEN Backends
    ELSE {Success}

\* Dispatch that pushes a results message after every tool instead of one
\* for the whole reply.
DispatchPushEach ==
    /\ pc = "await_tool"
    /\ toolCalls # <<>>
    /\ LET toolCall == Head(toolCalls) IN
       \E backend \in BackendsFor(toolCall) :
         LET result == executeTool(toolCall.tool, toolCall.params, backend)
             pushed == Push(workingMessages,
                            Message("user",
                                    <<Text("Tool Execution Results:"),
                                      result.value>>))
         IN /\ fetches' = fetches \o result.sent
            /\ executed' = Append(executed,
                                  [iteration |-> iteration,
                                   tool |-> toolCall.tool,
                                   params |-> toolCall.params,
                                   backend |-> backend,
                                   sent |-> result.sent,
                                   threw |-> result.threw,
                                   value |-> result.value])
            /\ toolCalls' = Tail(toolCalls)
            /\ toolResults' = Append(toolResults, result.value)
            /\ workingMessages' = pushed
            /\ IF Tail(toolCalls) = <<>>
               THEN CallModel(iteration, pushed)
               ELSE UNCHANGED <<iteration, aiCalls, pc>>
            /\ UNCHANGED responses
    /\ UNCHANGED <<request, messages, toolsUsed, aiReplies>>

\* One turn of `for (const toolCall of toolCalls)`: await executeTool,
\* toolResults += result; after the last one the push of the results
\* message and the next env.AI.run call.
Dispatch ==
    /\ pc = "await_tool"
    /\ toolCalls # <<>>
    /\ LET toolCall == Head(toolCalls) IN
       \E backend \in BackendsFor(toolCall) :
         LET result == executeTool(toolCall.tool, toolCall.params, backend)
             results == Append(toolResults, result.value)
             pushed == Push(workingMessages, Message("user", results))
         IN /\ fetches' = fetches \o result.sent
            /\ executed' = Append(executed,
                                  [iteration |-> iteration,
                                   tool |-> toolCall.tool,
                                   params |-> toolCall.params,
                                   backend |-> backend,
                                   sent |-> result.sent,
                                   threw |-> result.threw,
                                   value |-> result.value])
            /\ IF result.threw
               THEN /\ Catch
                    /\ UNCHANGED <<toolCalls, toolResults, workingMessages,
                                   iteration, aiCalls>>
               ELSE /\ toolCalls' = Tail(toolCalls)
                    /\ toolResults' = results
                    /\ IF Tail(toolCalls) = <<>>
                       THEN /\ workingMessages' = pushed
                            /\ CallModel(iteration, pushed)
                       ELSE UNCHANGED <<workingMessages, iteration, aiCalls,
                                        pc>>
                    /\ UNCHANGED responses
    /\ UNCHANGED <<request, messages, toolsUsed, aiReplies>>

\* FinalReply that treats the reply as the loop does: parsed, appended, its
\* directives dispatched.
FinalReplyParsed ==
    /\ pc = "await_final"
    /\ \E finalResult \in Replies :
         LET calls == parseToolCalls(finalResult) IN
         /\ aiReplies' = Append(aiReplies,
                                [threw |-> FALSE, response |-> finalResult])
         /\ workingMessages' =
              Push(workingMessages, Message("assistant", finalResult))
         /\ IF Len(calls) = 0
            THEN /\ Respond(buildStreamingResponse(finalResult))
                 /\ UNCHANGED <<toolCalls, toolResults>>
            ELSE /\ toolCalls' = calls
                 /\ toolResults' = <<Text("Tool Execution Results:")>>
                 /\ pc' = "await_tool"
                 /\ UNCHANGED responses
    /\ UNCHANGED <<request, messages, toolsUsed, iteration, aiCalls, executed,
                   fetches>>

\* The env.AI.run call after the loop returns: its reply is the answer.
FinalReply ==
    /\ pc = "await_final"
    /\ \E finalResult \in Replies :
         /\ aiReplies' = Append(aiReplies,
                                [threw |-> FALSE, response |-> finalResult])
         /\ Respond(buildStreamingResponse(finalResult))
    /\ UNCHANGED <<request, messages, workingMessages, toolsUsed, iteration,
                   toolCalls, toolResults, aiCalls, executed, fetches>>

\* One step of the request that is running.
Step ==
    \/ Route
    \/ ReadBody
    \/ ModelReplies
    \/ ModelThrows
    \/ Dispatch
    \/ FinalReply

Next ==
    \/ Route /\ UNCHANGED other
    \/ ReadBody /\ UNCHANGED other
    \/ ModelReplies /\ UNCHANGED other
    \/ ModelThrows /\ UNCHANGED other
    \/ Dispatch /\ UNCHANGED other
    \/ FinalReply /\ UNCHANGED other

Spec == Init /\ [][Next]_vars

(***************************************************************************)
(* A caller that comes back: its history holds the answer of an earlier    *)
(* request, which may be the reply of a call made after the loop and so    *)
(* may carry a directive.                                                  *)
(***************************************************************************)
EarlierAnswer ==
    Message("assistant", <<Text("Let me check."), CallInternships>>)

ReturningHistories ==
    SeqsUpTo({Message("user", <<Text("How do I transfer?")>>), EarlierAnswer},
             MaxHistory)

ReturningRequests ==
    {[method |-> "POST", pathname |-> <<"api", "chat">>,
      body |-> [json |-> TRUE, messages |-> h, userProfile |-> NoProfile]] :
        h \in ReturningHistories}

InitReturning ==
    /\ request \in ReturningRequests
    /\ Arrives
    /\ other = Alone

SpecReturning == InitReturning /\ [][Next]_vars

(***************************************************************************)
(* POST /api/chat under the proviso that every await settles: the body is  *)
(* read or request.json() rejects, every env.AI.run call and every tool    *)
(* call returns or fails.                                                  *)
(***************************************************************************)
LiveRequests ==
    {[method |-> "POST", pathname |-> <<"api", "chat">>, body |-> b] :
        b \in {[json |-> FALSE],
               [json |-> TRUE,
                messages |-> <<Message("user", <<Text("How do I transfer?")>>)>>,
                userProfile |-> NoProfile]}}

InitLive ==
    /\ request \in LiveRequests
    /\ Arrives
    /\ other = Alone

SpecLive == InitLive /\ [][Next]_vars /\ WF_vars(Next)

(***************************************************************************)
(* parseToolCalls on its own: a reply with one directive whose limit       *)
(* parameter takes every value of up to MaxValueLen characters.            *)
(***************************************************************************)
MaxValueLen == 3       \* characters in a parameter value

ValueChars == {"5", "0", " ", "B"}

ParamValues == SeqsUpTo(ValueChars, MaxValueLen)

ReplyWithLimit(value) ==
    <<Text("Let me check."),
      Call("find_internships",
           <<Param("major", <<"B">>), Param("limit", value)>>)>>

InitParse ==
    /\ request = [method |-> "POST", pathname |-> <<"api", "chat">>,
                  body |-> [json |-> TRUE, messages |-> <<>>,
                            userProfile |-> NoProfile]]
    /\ pc = "parse"
    /\ messages = <<>>
    /\ workingMessages = <<>>
    /\ toolsUsed = FALSE
    /\ iteration = 1
    /\ toolCalls = <<>>
    /\ toolResults = <<>>
    /\ aiCalls = <<>>
    /\ \E value \in ParamValues :
         aiReplies = <<[threw |-> FALSE, response |-> ReplyWithLimit(value)]>>
    /\ executed = <<>>
    /\ fetches = <<>>
    /\ responses = <<>>
    /\ other = Alone

\* const toolCalls = parseToolCalls(assistantMessage)
ParseReply ==
    /\ pc = "parse"
    /\ toolCalls' = parseToolCalls(aiReplies[1].response)
    /\ pc' = "parsed"
    /\ UNCHANGED <<request, messages, workingMessages, toolsUsed, iteration,
                   toolResults, aiCalls, aiReplies, executed, fetches,
                   responses, other>>

NextParse == ParseReply

SpecParse == InitParse /\ [][NextParse]_vars

(***************************************************************************)
(* buildSystemPrompt on its own: every combination of set and unset        *)
(* profile fields, and no profile.                                         *)
(***************************************************************************)
MaxSchools == 2        \* entries of userProfile.schools

PromptProfiles ==
    {NoProfile}
        \cup {Profile(cc, major, schools) :
                cc \in {"", "De Anza", "Foothill"},
                major \in {"", "Computer Science", "Biology"},
                schools \in SeqsUpTo({"UC Berkeley", "UCLA"}, MaxSchools)}

InitPrompt ==
    /\ \E p \in PromptProfiles :
         request = [method |-> "POST", pathname |-> <<"api", "chat">>,
                    body |-> [json |-> TRUE, messages |-> <<>>,
                              userProfile |-> p]]
    /\ pc = "build"
    /\ messages = <<>>
    /\ workingMessages = <<>>
    /\ toolsUsed = FALSE
    /\ iteration = 0
    /\ toolCalls = <<>>
    /\ toolResults = <<>>
    /\ aiCalls = <<>>
    /\ aiReplies = <<>>
    /\ executed = <<>>
    /\ fetches = <<>>
    /\ responses = <<>>
    /\ other = Alone

\* const systemPrompt = buildSystemPrompt(userProfile), unshifted into the
\* empty history.
BuildPrompt ==
    /\ pc = "build"
    /\ messages' = EnsureSystem(request.body.messages,
                                buildSystemPrompt(request.body.userProfile))
    /\ pc' = "built"
    /\ UNCHANGED <<request, workingMessages, toolsUsed, iteration, toolCalls,
                   toolResults, aiCalls, aiReplies, executed, fetches,
                   responses, other>>

NextPrompt == BuildPrompt

SpecPrompt == InitPrompt /\ [][NextPrompt]_vars

(***************************************************************************)
(* Two requests in flight.  The runtime runs one invocation at a time and  *)
(* may switch to the other one at an await: the locals of the suspended    *)
(* invocation are kept in `other` and come back when it resumes.           *)
(***************************************************************************)
MaxSwitches == 3       \* switches between the two requests

Capture ==
    [request |-> request, pc |-> pc, messages |-> messages,
     workingMessages |-> workingMessages, toolsUsed |-> toolsUsed,
     iteration |-> iteration, toolCalls |-> toolCalls,
     toolResults |-> toolResults, aiCalls |-> aiCalls,
     aiReplies |-> aiReplies, executed |-> executed, fetches |-> fetches,
     responses |-> responses]

Arrived(req) ==
    [request |-> req, pc |-> "fetch", messages |-> <<>>,
     workingMessages |-> <<>>, toolsUsed |-> FALSE, iteration |-> 0,
     toolCalls |-> <<>>, toolResults |-> <<>>, aiCalls |-> <<>>,
     aiReplies |-> <<>>, executed |-> <<>>, fetches |-> <<>>,
     responses |-> <<>>]

\* Switch with `let iteration` shared by the invocations (a module-level
\* counter): the resumed request goes on with the other one's count.
SwitchSharingIteration ==
    /\ other.present
    /\ other.switches < MaxSwitches
    /\ other.st.pc # "done"
    /\ other' = [present |-> TRUE, switches |-> other.switches + 1,
                 st |-> Capture]
    /\ request' = other.st.request
    /\ pc' = other.st.pc
    /\ messages' = other.st.messages
    /\ workingMessages' = other.st.workingMessages
    /\ toolsUsed' = other.st.toolsUsed
    /\ iteration' = iteration
    /\ toolCalls' = other.st.toolCalls
    /\ toolResults' = other.st.toolResults
    /\ aiCalls' = other.st.aiCalls
    /\ aiReplies' = other.st.aiReplies
    /\ executed' = other.st.executed
    /\ fetches' = other.st.fetches
    /\ responses' = other.st.responses

\* The running invocation is suspended at its await (or has returned) and
\* the other one resumes.
Switch ==
    /\ other.present
    /\ other.switches < MaxSwitches
    /\ other.st.pc # "done"
    /\ other' = [present |-> TRUE, switches |-> other.switches + 1,
                 st |-> Capture]
    /\ request' = other.st.request
    /\ pc' = other.st.pc
    /\ messages' = other.st.messages
    /\ workingMessages' = other.st.workingMessages
    /\ toolsUsed' = other.st.toolsUsed
    /\ iteration' = other.st.iteration
    /\ toolCalls' = other.st.toolCalls
    /\ toolResults' = other.st.toolResults
    /\ aiCalls' = other.st.aiCalls
    /\ aiReplies' = other.st.aiReplies
    /\ executed' = other.st.executed
    /\ fetches' = other.st.fetches
    /\ responses' = other.st.responses

TwoRequests ==
    {[method |-> "POST", pathname |-> <<"api", "chat">>, body |-> b] :
        b \in {[json |-> TRUE,
                messages |-> <<Message("user", <<Text("How do I transfer?")>>)>>,
                userProfile |-> Profile("De Anza", "", <<"UC Berkeley">>)],
               [json |-> TRUE,
                messages |-> <<Message("system", <<Text("caller system prompt")>>),
                               Message("user", <<Text("How do I transfer?")>>)>>,
                userProfile |-> NoProfile]}}

\* In the runs with two requests the completion engine answers without a
\* directive or with a single one, or fails in one way, and a backend
\* answers or is unreachable.
CalmReplies ==
    {<<Text("Here is my advice."), Malformed("find_internships")>>,
     <<Text("Let me check."), CallInternships>>}

Calm ==
    /\ \A k \in DOMAIN aiReplies :
         IF aiReplies[k].threw
         THEN aiReplies[k].error = "Error: model unavailable"
         ELSE aiReplies[k].response \in CalmReplies
    /\ \A i \in DOMAIN executed :
         executed[i].backend \in {Success, NetworkError}

InitTwo ==
    /\ request \in TwoRequests
    /\ Arrives
    /\ \E req \in TwoRequests :
         other = [present |-> TRUE, switches |-> 0, st |-> Arrived(req)]

NextTwo ==
    \/ Route /\ UNCHANGED other
    \/ ReadBody /\ UNCHANGED other
    \/ ModelReplies /\ Calm' /\ UNCHANGED other
    \/ ModelThrows /\ Calm' /\ UNCHANGED other
    \/ Dispatch /\ Calm' /\ UNCHANGED other
    \/ FinalReply /\ Calm' /\ UNCHANGED other
    \/ Switch

SpecTwo == InitTwo /\ [][NextTwo]_vars

(***************************************************************************)
(* Vocabulary of the properties.                                           *)
(***************************************************************************)
Done == pc = "done"

\* The well-formed directives of a reply, counted on its text.
WellFormed(reply) == {i \in DOMAIN reply : reply[i].k = "call"}

\* The k-th env.AI.run call returned a reply with / without directives.
Replied(k) == k \in DOMAIN aiReplies /\ ~aiReplies[k].threw
RepliedWithDirectives(k) ==
    Replied(k) /\ WellFormed(aiReplies[k].response) # {}
RepliedWithoutDirectives(k) ==
    Replied(k) /\ WellFormed(aiReplies[k].response) = {}

\* The executeTool invocations made for the reply of the it-th call.
ExecutedIn(it) == {i \in DOMAIN executed : executed[i].iteration = it}

\* The directives of the replies before the k-th.
RECURSIVE DirectivesBefore(_)
DirectivesBefore(k) ==
    IF k <= 1 THEN 0
    ELSE DirectivesBefore(k - 1)
           + (IF Replied(k - 1)
              THEN Cardinality(WellFormed(aiReplies[k - 1].response))
              ELSE 0)

SystemCount(msgs) ==
    Cardinality({i \in DOMAIN msgs : msgs[i].role = "system"})

PhantomEndpoint == "/api/cs-articulations"

\* The payload an unrecognized tool name resolves to.
IsUnknownToolPayload(value, toolName) ==
    value = [k |-> "json", error |-> <<"Unknown tool: ", toolName>>]

IsErrorPayloadOf(value, toolName) ==
    /\ value.k = "error"
    /\ value.display = toolDisplayName(toolName)

\* The backend call failed: fetch threw, or the body was not JSON.
Undecodable(backend) == backend.thrown \/ ~backend.json

\* The backend call failed in any way, a non-2xx status included.
BackendFailed(backend) ==
    Undecodable(backend) \/ backend.status \notin 200..299

(***************************************************************************)
(* C1.  The phantom tool find_cs_articulations is never executed: no       *)
(* request goes to the cs-articulations endpoint, and the directive's      *)
(* entry in the tool results is the unknown-tool payload.                  *)
(***************************************************************************)
PhantomNeverExecuted ==
    /\ \A i \in DOMAIN fetches : fetches[i].path # PhantomEndpoint
    /\ \A i \in DOMAIN executed :
         executed[i].tool = "find_cs_articulations"
            => IsUnknownToolPayload(executed[i].value, executed[i].tool)

(***************************************************************************)
(* C2.  When each of the first maxIterations replies carries a well-formed *)
(* directive, the request makes exactly maxIterations calls whose replies  *)
(* are parsed and dispatched, then exactly one more call, and responds     *)
(* once.                                                                   *)
(***************************************************************************)
AllLoopRepliesHaveDirectives ==
    \A k \in 1..maxIterations : RepliedWithDirectives(k)

FourCallsWhenEveryReplyHasDirectives ==
    (Done /\ AllLoopRepliesHaveDirectives)
        => /\ Len(aiCalls) = maxIterations + 1
           /\ Len(aiReplies) = maxIterations + 1
           /\ \A k \in 1..maxIterations :
                Cardinality(ExecutedIn(k))
                    = Cardinality(WellFormed(aiReplies[k].response))
           /\ Len(executed) = DirectivesBefore(maxIterations + 1)
           /\ Len(responses) = 1

FourCallsReached ==
    /\ Done
    /\ AllLoopRepliesHaveDirectives
    /\ Len(aiCalls) = 4
    /\ responses[1].status = 200

(***************************************************************************)
(* C3.  The loop stops at the first reply without a well-formed directive: *)
(* if it is the k-th, exactly k calls are made, no tool is dispatched      *)
(* after it and the response carries that reply verbatim.                  *)
(***************************************************************************)
StopsAtFirstReplyWithoutDirective ==
    \A k \in 1..maxIterations :
        RepliedWithoutDirectives(k)
            => /\ Done
               /\ Len(aiCalls) = k
               /\ Len(aiReplies) = k
               /\ Len(executed) = DirectivesBefore(k)
               /\ ExecutedIn(k) = {}
               /\ toolCalls = <<>>
               /\ responses =
                    <<[status |-> 200, contentType |-> "application/x-ndjson",
                       transferEncoding |-> "chunked",
                       body |-> <<[response |-> aiReplies[k].response]>>]>>

StoppedAtSecondReply ==
    /\ Done
    /\ RepliedWithDirectives(1)
    /\ RepliedWithoutDirectives(2)
    /\ \E i \in DOMAIN aiReplies[2].response :
         aiReplies[2].response[i].k = "malformed"
    /\ executed # <<>>

(***************************************************************************)
(* C4.  The reply of the call made after the loop is the answer and is not *)
(* parsed: no tool is dispatched, no message is appended and no further    *)
(* call is made, even when that reply carries directives.                  *)
(***************************************************************************)
FinalReplyIsNotParsed ==
    Replied(maxIterations + 1)
        => /\ Done
           /\ Len(aiCalls) = maxIterations + 1
           /\ Len(aiReplies) = maxIterations + 1
           /\ workingMessages = aiCalls[maxIterations + 1]
           /\ Len(executed) = DirectivesBefore(maxIterations + 1)
           /\ toolCalls = <<>>
           /\ responses =
                <<[status |-> 200, contentType |-> "application/x-ndjson",
                   transferEncoding |-> "chunked",
                   body |-> <<[response |->
                                 aiReplies[maxIterations + 1].response]>>]>>

FinalReplyWithDirectives ==
    /\ Done
    /\ RepliedWithDirectives(maxIterations + 1)

(***************************************************************************)
(* C5.  As claimed: for every caller history, each call's messages hold    *)
(* exactly one system message, at index 0.                                 *)
(***************************************************************************)
OneSystemMessageAtHead(msgs) ==
    /\ SystemCount(msgs) = 1
    /\ msgs[1].role = "system"

EveryCallHasOneSystemMessageAtHead ==
    \A c \in DOMAIN aiCalls : OneSystemMessageAtHead(aiCalls[c])

(***************************************************************************)
(* C5, amended.  For every caller history that holds no system message, or *)
(* exactly one and at index 0, each call's messages hold exactly one       *)
(* system message, at index 0.                                             *)
(***************************************************************************)
CallerHistory == request.body.messages

OneSystemMessageAtHeadForOrderlyHistory ==
    \A c \in DOMAIN aiCalls :
        (SystemCount(CallerHistory) = 0
            \/ OneSystemMessageAtHead(CallerHistory))
          => OneSystemMessageAtHead(aiCalls[c])

FourthCallAfterInsertion ==
    /\ Len(aiCalls) = 4
    /\ SystemCount(CallerHistory) = 0
    /\ CallerHistory # <<>>

(***************************************************************************)
(* C6.  System-message insertion is idempotent: a history that holds a     *)
(* system message is passed on as it is; a history that holds none gets    *)
(* exactly one, at position 0, before the caller's messages in their       *)
(* order.                                                                  *)
(***************************************************************************)
SystemInsertionIdempotent ==
    aiCalls # <<>> =>
        LET first == aiCalls[1] IN
        /\ messages = first
        /\ IF SystemCount(CallerHistory) > 0
           THEN /\ Len(first) = Len(CallerHistory)
                /\ SystemCount(first) = SystemCount(CallerHistory)
                /\ \A i \in DOMAIN CallerHistory : first[i] = CallerHistory[i]
           ELSE /\ Len(first) = Len(CallerHistory) + 1
                /\ first[1].role = "system"
                /\ SystemCount(first) = 1
                /\ \A i \in DOMAIN CallerHistory :
                     first[i + 1] = CallerHistory[i]

CalledWithCallerSystemMessage ==
    /\ aiCalls # <<>>
    /\ SystemCount(CallerHistory) = 1
    /\ CallerHistory[1].role = "user"

(***************************************************************************)
(* C7.  A tool call whose fetch throws or whose body is not JSON does not  *)
(* abort the request: executeTool returns the line                         *)
(* "[<display name>] Error: <description>", the other directives of the    *)
(* reply are dispatched, the line is in the tool-results message of the    *)
(* next call, which is made, and a 500 comes from a failed completion call *)
(* only.                                                                   *)
(***************************************************************************)
ResultsMessageOf(it) == aiCalls[it + 1][Len(aiCalls[it + 1])]

ToolFailureDoesNotAbort ==
    \A i \in DOMAIN executed :
        LET e == executed[i] IN
        Undecodable(e.backend) =>
            /\ ~e.threw
            /\ IsErrorPayloadOf(e.value, e.tool)
            /\ e.value.error \in {"TypeError: fetch failed",
                                  "SyntaxError: Unexpected token"}
            /\ Done =>
                 /\ Len(aiCalls) > e.iteration
                 /\ Cardinality(ExecutedIn(e.iteration))
                      = Cardinality(WellFormed(aiReplies[e.iteration].response))
                 /\ ResultsMessageOf(e.iteration).role = "user"
                 /\ \E j \in DOMAIN ResultsMessageOf(e.iteration).content :
                      ResultsMessageOf(e.iteration).content[j] = e.value
                 /\ responses[1].status = 500
                      => aiReplies[Len(aiReplies)].threw

FailureThenNextDirective ==
    /\ Done
    /\ responses[1].status = 200
    /\ \E i \in DOMAIN executed :
         /\ Undecodable(executed[i].backend)
         /\ i + 1 \in DOMAIN executed
         /\ executed[i + 1].iteration = executed[i].iteration
         /\ executed[i + 1].sent # <<>>

(***************************************************************************)
(* C8.  As claimed: every backend failure, a non-2xx status included, is   *)
(* turned into the "[<display name>] Error: ..." payload, never into a     *)
(* "[<display name>] <JSON payload>" result.                               *)
(***************************************************************************)
EveryBackendFailureIsAnErrorPayload ==
    \A i \in DOMAIN executed :
        (executed[i].sent # <<>> /\ BackendFailed(executed[i].backend))
            => IsErrorPayloadOf(executed[i].value, executed[i].tool)

(***************************************************************************)
(* C9.  A failing completion call is not retried: once a call has thrown,  *)
(* the request is over with no further completion call and no tool call,   *)
(* and its one response is the 500 with the fixed body, whatever the       *)
(* error.                                                                  *)
(***************************************************************************)
FailedCompletionIsNotRetried ==
    \A k \in DOMAIN aiReplies :
        aiReplies[k].threw
            => /\ Done
               /\ Len(aiReplies) = k
               /\ Len(aiCalls) = k
               /\ Len(executed) = DirectivesBefore(k)
               /\ toolCalls = <<>>
               /\ responses =
                    <<[status |-> 500, contentType |-> "application/json",
                       body |-> <<[error |-> "Failed to process request"]>>]>>

ThirdCompletionFailed ==
    /\ Done
    /\ Len(aiReplies) = 3
    /\ aiReplies[3].threw
    /\ aiReplies[3].error = "Error: capacity exceeded"

(***************************************************************************)
(* C10.  workingMessages is append-only: the messages of a completion call *)
(* are a prefix of the messages of every later call of the request, and of *)
(* workingMessages itself.                                                 *)
(***************************************************************************)
WorkingMessagesAppendOnly ==
    /\ \A i, j \in DOMAIN aiCalls :
         i < j => /\ IsPrefix(aiCalls[i], aiCalls[j])
                  /\ Len(aiCalls[j]) > Len(aiCalls[i])
    /\ \A i \in DOMAIN aiCalls : IsPrefix(aiCalls[i], workingMessages)

FourCallsOnGrowingMessages ==
    /\ Len(aiCalls) = 4
    /\ Len(aiCalls[4]) = Len(aiCalls[1]) + 6

(***************************************************************************)
(* C11.  As claimed: at every completion call, every assistant message of  *)
(* the message sequence that carries a well-formed directive is followed   *)
(* at once by exactly one user message with the aggregated tool results.   *)
(***************************************************************************)
CarriesDirective(msg) ==
    msg.role = "assistant" /\ WellFormed(msg.content) # {}

IsResultsMessageFor(msg, assistant) ==
    /\ msg.role = "user"
    /\ msg.content # <<>>
    /\ msg.content[1] = [k |-> "text", s |-> "Tool Execution Results:"]
    /\ Len(msg.content) = 1 + Cardinality(WellFormed(assistant.content))

FollowedByItsResults(msgs, p) ==
    /\ p + 1 \in DOMAIN msgs
    /\ IsResultsMessageFor(msgs[p + 1], msgs[p])
    /\ p + 2 \in DOMAIN msgs => msgs[p + 2].role # "user"

EveryDirectiveMessageHasResults ==
    \A c \in DOMAIN aiCalls :
        \A p \in DOMAIN aiCalls[c] :
            CarriesDirective(aiCalls[c][p])
                => FollowedByItsResults(aiCalls[c], p)

(***************************************************************************)
(* C11, amended.  The same, for the assistant messages that the handler    *)
(* appended during this request (those after the messages of the first     *)
(* call); assistant messages of the caller's history are passed on as      *)
(* they came.                                                              *)
(***************************************************************************)
EveryAppendedDirectiveMessageHasResults ==
    \A c \in DOMAIN aiCalls :
        \A p \in DOMAIN aiCalls[c] :
            (p > Len(aiCalls[1]) /\ CarriesDirective(aiCalls[c][p]))
                => FollowedByItsResults(aiCalls[c], p)

ThreeDirectiveMessagesWithResults ==
    /\ Len(aiCalls) = 4
    /\ \E p \in DOMAIN CallerHistory : CarriesDirective(CallerHistory[p])
    /\ \E p \in DOMAIN aiCalls[4] :
         /\ p > Len(aiCalls[1])
         /\ Cardinality(WellFormed(aiCalls[4][p].content)) = 3

(***************************************************************************)
(* C12.  iteration never exceeds maxIterations, at most maxIterations + 1  *)
(* completion calls are made and at most maxIterations + 1 batches of tool *)
(* calls are dispatched: a fifth completion call is unreachable.           *)
(***************************************************************************)
Batches == {executed[i].iteration : i \in DOMAIN executed}

IterationBudgetHolds ==
    /\ iteration \in 0..maxIterations
    /\ Len(aiCalls) <= maxIterations + 1
    /\ Len(aiReplies) <= Len(aiCalls)
    /\ Cardinality(Batches) <= maxIterations + 1
    /\ Batches \subseteq 1..maxIterations

BudgetSpent ==
    /\ Done
    /\ iteration = 3
    /\ Len(aiCalls) = 4
    /\ Cardinality(Batches) = 3

(***************************************************************************)
(* C13.  As claimed, the part a finite run decides: a POST /api/chat       *)
(* request none of whose completion calls fails is answered 200 with a     *)
(* model reply.                                                            *)
(***************************************************************************)
NoCompletionFailed == \A k \in DOMAIN aiReplies : ~aiReplies[k].threw

CarriesLastReply(response) ==
    /\ response.status = 200
    /\ aiReplies # <<>>
    /\ response.body = <<[response |-> aiReplies[Len(aiReplies)].response]>>

AnsweredOnce ==
    /\ ~Done => responses = <<>>
    /\ Done => Len(responses) = 1
    /\ (Done /\ request.body.json /\ NoCompletionFailed)
          => CarriesLastReply(responses[1])

CatalogNames ==
    {"check_transfer_requirements", "find_internships",
     "find_mentorship_programs", "find_free_resources",
     "find_cs_articulations"}

UnknownToolIsAnsweredInText ==
    \A i \in DOMAIN executed :
        LET e == executed[i] IN
        e.tool \notin CatalogNames =>
            /\ e.sent = <<>>
            /\ Len(fetches) = Cardinality({j \in DOMAIN executed :
                                             executed[j].tool \in CatalogNames})
            /\ ~e.threw
            /\ IsUnknownToolPayload(e.value, e.tool)
            /\ Done =>
                 /\ Len(aiCalls) > e.iteration
                 /\ Cardinality(ExecutedIn(e.iteration))
                      = Cardinality(WellFormed(aiReplies[e.iteration].response))
                 /\ \E j \in DOMAIN ResultsMessageOf(e.iteration).content :
                      ResultsMessageOf(e.iteration).content[j] = e.value
                 /\ responses[1].status = 500
                      => aiReplies[Len(aiReplies)].threw

UnknownToolThenNextDirective ==
    /\ Done
    /\ responses[1].status = 200
    /\ \E i \in DOMAIN executed :
         /\ executed[i].tool = "lookup_gpa"
         /\ i + 1 \in DOMAIN executed
         /\ executed[i + 1].iteration = executed[i].iteration
         /\ executed[i + 1].sent # <<>>

(***************************************************************************)
(* C15.  As claimed: parseToolCalls makes a parameter value a number       *)
(* exactly when its text is fully numeric (a non-empty run of digits) and  *)
(* keeps it as text otherwise; the empty value stays text.                 *)
(***************************************************************************)
LimitText == aiReplies[1].response[2].params[2].value

FullyNumeric(value) ==
    /\ value # <<>>
    /\ \A i \in DOMAIN value : value[i] \in {"0", "5"}

RECURSIVE ValueOfDigits(_)
ValueOfDigits(value) ==
    IF value = <<>> THEN 0
    ELSE 10 * ValueOfDigits(SubSeq(value, 1, Len(value) - 1))
           + (IF value[Len(value)] = "5" THEN 5 ELSE 0)

NumberExactlyWhenFullyNumeric ==
    pc = "parsed" =>
        /\ Len(toolCalls) = 1
        /\ toolCalls[1].params["limit"] =
             IF FullyNumeric(LimitText)
             THEN [num |-> ValueOfDigits(LimitText)]
             ELSE [str |-> LimitText]

(***************************************************************************)
(* C16.  As claimed: the prompt holds the "Student Profile" block only     *)
(* when at least one profile field is set; the block lists exactly the set *)
(* fields; with no profile, or a profile with no field set, the prompt     *)
(* holds no "Student Profile" text.                                        *)
(***************************************************************************)
GivenProfile == request.body.userProfile

SetFields(profile) ==
    IF ~profile.present THEN {}
    ELSE (IF profile.cc # ""
          THEN {[label |-> "Current Community College",
                 value |-> <<profile.cc>>]}
          ELSE {})
         \cup (IF profile.major # ""
               THEN {[label |-> "Target Major", value |-> <<profile.major>>]}
               ELSE {})
         \cup (IF profile.schools # <<>>
               THEN {[label |-> "Target Universities",
                      value |-> profile.schools]}
               ELSE {})

ListedFields(prompt) ==
    {[label |-> prompt[i].label, value |-> prompt[i].value] :
        i \in {j \in DOMAIN prompt : prompt[j].k = "field"}}

HasProfileHeader(prompt) ==
    \E i \in DOMAIN prompt :
        prompt[i] = [k |-> "text", s |-> "Student Profile:"]

ProfileBlockOnlyWhenAFieldIsSet ==
    pc = "built" =>
        LET prompt == messages[1].content IN
        /\ ListedFields(prompt) = SetFields(GivenProfile)
        /\ HasProfileHeader(prompt) <=> SetFields(GivenProfile) # {}

(***************************************************************************)
(* C17: Concurrent requests do not interfere.  When two POST /api/chat     *)
(* requests are interleaved at their suspension points, the iteration      *)
(* count of each, the message sequences it passes to its completion calls  *)
(* and its response are the ones it has when it runs alone with the same   *)
(* model replies and tool outcomes.                                        *)
(***************************************************************************)
\* What a request that runs alone does is computed from its body, the
\* replies it was given and the outcomes of its tool calls.
CallsOfReply(st, k) ==
    IF st.aiReplies[k].threw THEN <<>>
    ELSE parseToolCalls(st.aiReplies[k].response)

RECURSIVE ExecutedBefore(_, _)
ExecutedBefore(st, k) ==
    IF k = 1 THEN 0
    ELSE ExecutedBefore(st, k - 1) + Len(CallsOfReply(st, k - 1))

RoundMessages(st, k) ==
    LET calls == CallsOfReply(st, k)
        off == ExecutedBefore(st, k)
    IN <<Message("assistant", st.aiReplies[k].response),
         Message("user",
                 <<Text("Tool Execution Results:")>> \o
                 [j \in 1..Len(calls) |->
                    executeTool(calls[j].tool, calls[j].params,
                                st.executed[off + j].backend).value])>>

RECURSIVE AloneMessages(_, _)
AloneMessages(st, k) ==
    IF k = 1
    THEN EnsureSystem(st.request.body.messages,
                      buildSystemPrompt(st.request.body.userProfile))
    ELSE AloneMessages(st, k - 1) \o RoundMessages(st, k - 1)

AloneIteration(st) ==
    IF Len(st.aiCalls) < maxIterations THEN Len(st.aiCalls)
    ELSE maxIterations

\* The reply that ends the request: a failed call, a reply without
\* directive, or the reply to the call after the loop.
Ends(st, k) ==
    \/ st.aiReplies[k].threw
    \/ CallsOfReply(st, k) = <<>>
    \/ k = maxIterations + 1

AloneResponses(st) ==
    LET n == Len(st.aiReplies) IN
    IF st.pc # "done" THEN <<>>
    ELSE IF n = 0 \/ st.aiReplies[n].threw THEN <<ErrorResponse>>
    ELSE <<buildStreamingResponse(st.aiReplies[n].response)>>

RunsAsAlone(st) ==
    /\ st.iteration = AloneIteration(st)
    /\ \A k \in DOMAIN st.aiReplies :
         Ends(st, k) <=> (k = Len(st.aiReplies) /\ st.pc = "done")
    /\ \A k \in DOMAIN st.aiCalls :
         /\ Len(st.executed) >= ExecutedBefore(st, k)
         /\ st.aiCalls[k] = AloneMessages(st, k)
    /\ st.responses = AloneResponses(st)

RequestsDoNotInterfere ==
    other.present =>
        /\ request.method = "POST" /\ request.pathname = <<"api", "chat">>
        /\ RunsAsAlone(Capture)
        /\ RunsAsAlone(other.st)

BothAnsweredAfterInterleaving ==
    /\ other.present
    /\ other.switches = MaxSwitches
    /\ Done
    /\ other.st.pc = "done"
    /\ request # other.st.request
    /\ Len(aiCalls) > 1
    /\ Len(other.st.aiCalls) > 1

(***************************************************************************)
(* C18: Routing.  A request to /api/chat with a method other than POST is  *)
(* answered 405, a request to another path under /api/ is answered 404,    *)
(* and in both cases no completion call and no tool call is made: only     *)
(* POST /api/chat reaches the completion loop.                             *)
(***************************************************************************)
ToChat == request.pathname = <<"api", "chat">>

UnderApi == request.pathname # <<>> /\ Head(request.pathname) = "api"

AnsweredWithStatus(status) ==
    /\ Len(responses) = 1
    /\ responses[1].status = status

OnlyPostChatReachesTheLoop ==
    /\ (Done /\ ToChat /\ request.method # "POST") => AnsweredWithStatus(405)
    /\ (Done /\ UnderApi /\ ~ToChat) => AnsweredWithStatus(404)
    /\ ~(ToChat /\ request.method = "POST")
         => /\ pc \in {"fetch", "done"}
            /\ aiCalls = <<>>
            /\ aiReplies = <<>>
            /\ executed = <<>>
            /\ fetches = <<>>

RefusedWithoutAnyCall ==
    /\ ~other.present
    /\ Done
    /\ ToChat
    /\ request.method = "GET"
    /\ responses = <<MethodNotAllowed>>
    /\ aiCalls = <<>>

(***************************************************************************)
(* C19: For a reply with the directives d1..dn, in their order of          *)
(* appearance and duplicates included, the tools are dispatched one at a   *)
(* time in that order, and the single appended user message is the header  *)
(* 'Tool Execution Results:' followed by exactly n payload lines in the    *)
(* order d1..dn.                                                           *)
(***************************************************************************)
IsDirective(seg) == seg.k = "call"

\* d1..dn, read from the text of the reply of the it-th call.
DirectivesOf(it) == SelectSeq(aiReplies[it].response, IsDirective)

\* How many of them have been dispatched.
DispatchedOf(it) ==
    LET n == Len(DirectivesOf(it))
        rest == Len(executed) - DirectivesBefore(it)
    IN IF rest < 0 THEN 0 ELSE IF rest < n THEN rest ELSE n

DispatchedInOrder(it) ==
    LET ds == DirectivesOf(it)
        off == DirectivesBefore(it)
    IN \A j \in 1..DispatchedOf(it) :
         /\ executed[off + j].iteration = it
         /\ executed[off + j].tool = ds[j].tool
         /\ executed[off + j].params = ParseParams(ds[j].params)

\* No request is sent for a directive before the calls for the directives
\* on its left have returned.
OneAtATime(it) ==
    LET ds == DirectivesOf(it)
        m == DispatchedOf(it)
    IN (it = Len(aiReplies) /\ pc = "await_tool")
         => /\ Len(executed) = DirectivesBefore(it) + m
            /\ m < Len(ds)
            /\ Len(toolCalls) = Len(ds) - m
            /\ \A j \in 1..Len(toolCalls) : toolCalls[j].tool = ds[m + j].tool
            /\ Len(toolResults) = 1 + m
            /\ Len(fetches)
                 = Cardinality({i \in DOMAIN executed : executed[i].sent # <<>>})

ResultsInOrder(it) ==
    LET ds == DirectivesOf(it)
        off == DirectivesBefore(it)
    IN Len(aiCalls) > it
         => /\ DispatchedOf(it) = Len(ds)
            /\ Len(aiCalls[it + 1]) = Len(aiCalls[it]) + 2
            /\ ResultsMessageOf(it).role = "user"
            /\ ResultsMessageOf(it).content
                 = <<Text("Tool Execution Results:")>>
                     \o [j \in 1..Len(ds) |-> executed[off + j].value]

DirectivesDispatchedInOrder ==
    /\ \A it \in DOMAIN aiReplies :
         (RepliedWithDirectives(it) /\ it <= maxIterations)
            => /\ DispatchedInOrder(it)
               /\ OneAtATime(it)
               /\ ResultsInOrder(it)
    /\ Len(executed) <= DirectivesBefore(Len(aiReplies) + 1)

ThreeDirectivesAnsweredInOrder ==
    /\ ~other.present
    /\ Done
    /\ \E it \in DOMAIN aiReplies :
         /\ RepliedWithDirectives(it)
         /\ Len(DirectivesOf(it)) > 2
         /\ Len(aiCalls) > it
         /\ \E j \in 1..Len(DirectivesOf(it)) :
              DirectivesOf(it)[j].tool # DirectivesOf(it)[1].tool

(***************************************************************************)
(* C20: When the caller's history already contains a system message, the   *)
(* user profile has no effect: a request that differs in userProfile only  *)
(* passes the same message sequences to every completion call and gets the *)
(* same response, the model replies and tool outcomes being the same.  The *)
(* prompt built from the profile reaches the model only as the system      *)
(* message the handler inserts.                                            *)
(***************************************************************************)
\* The running request with another profile in its body.
WithProfile(profile) ==
    [Capture EXCEPT !.request.body.userProfile = profile]

SameWithAnyProfile ==
    \A profile \in Profiles :
        /\ \A k \in DOMAIN aiCalls :
             aiCalls[k] = AloneMessages(WithProfile(profile), k)
        /\ responses = AloneResponses(WithProfile(profile))

CarriesBuiltPrompt(msg) ==
    \E profile \in Profiles : msg.content = buildSystemPrompt(profile)

ProfileIgnoredWhenCallerHasSystemMessage ==
    aiCalls # <<>> =>
        /\ HasSystem(CallerHistory) => SameWithAnyProfile
        /\ \A k \in DOMAIN aiCalls :
             \A p \in DOMAIN aiCalls[k] :
                 CarriesBuiltPrompt(aiCalls[k][p])
                    => /\ ~HasSystem(CallerHistory)
                       /\ p = 1
                       /\ aiCalls[k][p]
                            = Message("system",
                                      buildSystemPrompt(request.body.userProfile))

ProfileSentWithCallerSystemMessage ==
    /\ ~other.present
    /\ Done
    /\ Len(aiCalls) > 1
    /\ HasSystem(CallerHistory)
    /\ request.body.userProfile.present
    /\ responses[1].status = 200

====
